---- MODULE Spec2Model ----
(***************************************************************************)
(* Model of ToasaviManager (the toast lifecycle manager): the toasts map,  *)
(* the container's child list, the 'toasavi-removing' class of each toast  *)
(* element and the setTimeout callbacks show and removeToast schedule.     *)
(* Times are in milliseconds.  A toast id is a number 1..MaxIds standing   *)
(* for the fresh string generateId returns; NoId stands for ''.            *)
(***************************************************************************)
EXTENDS Integers, Sequences, FiniteSets, TLC

\* ---- bounds of the model ----
MaxIds == 3        \* number of toasts show may create in one run
MaxTimers == 2     \* pending setTimeout callbacks
MaxClicks == 2     \* body clicks in one run
TickMs == 150      \* granularity of the clock

\* ---- configuration of the manager: new ToasaviManager({maxToasts: 2, defaultDuration: 450}),
\* the constructor argument merged over the defaults (5 and 4000) ----
maxToasts == 2
defaultDuration == 450

\* delay of the exit transition callback in removeToast
ExitMs == 300

NoId == 0
Ids == 1..MaxIds

\* the options objects passed to show and to the shorthands: message, type
\* ("undefined" when absent), duration (when hasDuration), closable (when
\* hasClosable) and whether an onClick callback is supplied
OptionChoices ==
  { [message |-> "a", type |-> "undefined",
     hasDuration |-> FALSE, duration |-> 0,   hasClosable |-> FALSE, closable |-> TRUE,  onClick |-> FALSE],
    [message |-> "b", type |-> "error",
     hasDuration |-> TRUE,  duration |-> 0,   hasClosable |-> TRUE,  closable |-> FALSE, onClick |-> FALSE],
    [message |-> "c", type |-> "warning",
     hasDuration |-> TRUE,  duration |-> 150, hasClosable |-> TRUE,  closable |-> TRUE,  onClick |-> TRUE] }

\* no options object: the value of event.opts outside show
NoOpts ==
  [message |-> "", type |-> "undefined",
   hasDuration |-> FALSE, duration |-> 0, hasClosable |-> FALSE, closable |-> TRUE, onClick |-> FALSE]

\* the shorthand methods success, error, warning, info and the message they are given
Methods == {"success", "error", "warning", "info"}
ShorthandMessages == {"m"}

MaxOf(S) == CHOOSE x \in S : \A y \in S : y <= x
AgeCap == MaxOf({o.duration : o \in OptionChoices} \cup {defaultDuration}) + TickMs

VARIABLES
  container,     \* TRUE iff this.container is an element (a window exists)
  toasts,        \* this.toasts: the keys of the Map in insertion order
  children,      \* the toast elements attached to the container, in DOM order
  removing,      \* ids whose element carries the class 'toasavi-removing'
  timers,        \* pending setTimeout callbacks, in the order they will run
  nextId,        \* the next fresh id generateId will return
  duration,      \* the const duration resolved in show, per toast
  closeBtn,      \* ids whose element has a close button
  onClick,       \* ids whose element has toast.onclick set
  onClickCalls,  \* number of invocations of options.onClick, per toast
  onCloseCalls,  \* number of invocations of options.onClose, per toast
  age,           \* ms elapsed since the toast was attached, while its auto-dismiss timer is pending
  event          \* the operation or callback that ran last

vars == <<container, toasts, children, removing, timers, nextId, duration,
          closeBtn, onClick, onClickCalls, onCloseCalls, age, event>>

\* the part of the state removeToast, limitToasts, show and clear work on
M == [toasts |-> toasts, children |-> children, removing |-> removing, timers |-> timers]

Range(s) == {s[i] : i \in 1..Len(s)}
Without(s, x) == SelectSeq(s, LAMBDA y : y # x)

Ev(op, id, target, again) ==
  [op |-> op, id |-> id, target |-> target, again |-> again, elapsed |-> 0,
   via |-> "none", opts |-> NoOpts, cls |-> "none", text |-> ""]

\* the show call that ran last: the method called (via), the options object show
\* received, and the class and the text of the element it created
EvShow(via, o, id, target, again, cls, text) ==
  [Ev("show", id, target, again) EXCEPT !.via = via, !.opts = o, !.cls = cls, !.text = text]

\* setTimeout(fn, delay): the callback runs after those that are due earlier and
\* after those scheduled before it that are due at the same time
setTimeout(tm, kind, id, delay) ==
  LET n == Cardinality({i \in 1..Len(tm) : tm[i].remaining <= delay}) IN
  SubSeq(tm, 1, n) \o <<[kind |-> kind, id |-> id, remaining |-> delay]>> \o SubSeq(tm, n + 1, Len(tm))

\* removeToast deleting the record at once instead of in the exit callback
removeToast_Sync(m, id) ==
  [m EXCEPT !.children = Without(@, id), !.toasts = Without(@, id)]

\* removeToast without the lookup of the id in the map
removeToast_NoCheck(m, id) ==
  [m EXCEPT !.removing = @ \cup {id},
            !.timers = setTimeout(@, "exit", id, ExitMs)]

\* removeToast toggling the class instead of adding it
removeToast_Toggle(m, id) ==
  IF id \in Range(m.toasts)
    THEN [m EXCEPT !.removing = IF id \in @ THEN @ \ {id} ELSE @ \cup {id},
                   !.timers = setTimeout(@, "exit", id, ExitMs)]
    ELSE m

\* removeToast(id): lines 228-239
removeToast(m, id) ==
  IF id \in Range(m.toasts)
    THEN [m EXCEPT !.removing = @ \cup {id},
                   !.timers = setTimeout(@, "exit", id, ExitMs)]
    ELSE m

\* the exit callback deleting the record and leaving the element attached
exitCallback_NoDetach(m, id) == [m EXCEPT !.toasts = Without(@, id)]

\* the callback removeToast schedules: lines 232-237
exitCallback(m, id) ==
  [m EXCEPT !.children = Without(@, id),
            !.toasts = Without(@, id)]

\* limitToasts deleting the first entry at once
limitToasts_Sync(m) ==
  IF Len(m.toasts) >= maxToasts /\ m.toasts # <<>>
    THEN exitCallback(m, Head(m.toasts))
    ELSE m

\* limitToasts(): lines 175-182
limitToasts(m) ==
  IF Len(m.toasts) >= maxToasts /\ m.toasts # <<>>
    THEN removeToast(m, Head(m.toasts))
    ELSE m

\* options.duration || defaultDuration: an explicit 0 replaced by the default
resolveDuration_Falsy(o) ==
  IF o.hasDuration /\ o.duration # 0 THEN o.duration ELSE defaultDuration

\* const duration = options.duration !== undefined ? options.duration : defaultDuration
resolveDuration(o) == IF o.hasDuration THEN o.duration ELSE defaultDuration

\* the class suffix of the element: options.type || 'info', line 191
typeClass(o) == IF o.type = "undefined" THEN "info" ELSE o.type

\* the options spread after the fixed fields: { message, type, ...options }
shorthandOptions_OptionsLast(method, message, o) ==
  [o EXCEPT !.type = IF @ = "undefined" THEN method ELSE @]

\* { ...options, message, type: '<method>' }: lines 245-259
shorthandOptions(method, message, o) == [o EXCEPT !.message = message, !.type = method]

\* the timer scheduled whatever the duration is
scheduleDismiss_Always(tm, id, d) == setTimeout(tm, "dismiss", id, d)

\* the timer scheduled with no delay
scheduleDismiss_NoDelay(tm, id, d) == IF d > 0 THEN setTimeout(tm, "dismiss", id, 0) ELSE tm

\* if (duration > 0) setTimeout(() => this.removeToast(id), duration)
scheduleDismiss(tm, id, d) == IF d > 0 THEN setTimeout(tm, "dismiss", id, d) ELSE tm

\* show inserting the new toast before the existing ones
show_Prepend(m, o, id) ==
  LET m1 == limitToasts(m) IN
  [m1 EXCEPT !.children = <<id>> \o @,
             !.toasts = Append(@, id),
             !.timers = scheduleDismiss(@, id, resolveDuration(o))]

\* show(options) when a container exists: lines 187-225
show(m, o, id) ==
  LET m1 == limitToasts(m) IN
  [m1 EXCEPT !.children = Append(@, id),
             !.toasts = Append(@, id),
             !.timers = scheduleDismiss(@, id, resolveDuration(o))]

\* clear(): this.toasts.forEach((_, id) => this.removeToast(id))
RECURSIVE forEachRemove(_, _)
forEachRemove(m, ids) ==
  IF ids = <<>> THEN m ELSE forEachRemove(removeToast(m, Head(ids)), Tail(ids))

\* clear stopping after the first entry
clear_FirstOnly(m) == IF m.toasts = <<>> THEN m ELSE removeToast(m, Head(m.toasts))

clear(m) == forEachRemove(m, m.toasts)

Init ==
  /\ container \in BOOLEAN
  /\ toasts = <<>>
  /\ children = <<>>
  /\ removing = {}
  /\ timers = <<>>
  /\ nextId = 1
  /\ duration = [i \in Ids |-> 0]
  /\ closeBtn = {}
  /\ onClick = {}
  /\ onClickCalls = [i \in Ids |-> 0]
  /\ onCloseCalls = [i \in Ids |-> 0]
  /\ age = [i \in Ids |-> 0]
  /\ event = Ev("init", NoId, NoId, FALSE)

SetM(m) ==
  /\ toasts' = m.toasts
  /\ children' = m.children
  /\ removing' = m.removing
  /\ timers' = m.timers

\* show going on without a container
NoSurface_Never == FALSE

\* if (!this.container) return ''
NoSurface == ~container

\* show(options) with no container: line 185
ShowNoContainer ==
  /\ NoSurface
  /\ event' = EvShow("show", NoOpts, NoId, NoId, FALSE, "none", "")
  /\ UNCHANGED <<container, toasts, children, removing, timers, nextId, duration,
                 closeBtn, onClick, onClickCalls, onCloseCalls, age>>

\* show(options) with a container, called directly or by a shorthand (via)
DoShow(o, via) ==
  /\ ~NoSurface
  /\ nextId <= MaxIds
  /\ Len(show(M, o, nextId).timers) <= MaxTimers
  /\ LET id == nextId
         evict == Len(toasts) >= maxToasts /\ toasts # <<>>
     IN /\ SetM(show(M, o, id))
        /\ nextId' = id + 1
        /\ duration' = [duration EXCEPT ![id] = resolveDuration(o)]
        /\ closeBtn' = IF o.hasClosable /\ ~o.closable THEN closeBtn ELSE closeBtn \cup {id}
        /\ onClick' = IF o.onClick THEN onClick \cup {id} ELSE onClick
        /\ age' = [age EXCEPT ![id] = 0]
        /\ event' = EvShow(via, o, id, IF evict THEN Head(toasts) ELSE NoId,
                           evict /\ Head(toasts) \in removing, typeClass(o), o.message)
  /\ UNCHANGED <<container, onClickCalls, onCloseCalls>>

\* show(options) called by the application
Show(o) == DoShow(o, "show")

\* success / error / warning / info (message, options): lines 245-259
Shorthand(method, message, o) ==
  \/ /\ NoSurface
     /\ event' = EvShow(method, NoOpts, NoId, NoId, FALSE, "none", "")
     /\ UNCHANGED <<container, toasts, children, removing, timers, nextId, duration,
                    closeBtn, onClick, onClickCalls, onCloseCalls, age>>
  \/ DoShow(shorthandOptions(method, message, o), method)

\* removeToast(id) called by the application, with any string as id
RemoveToast(id) ==
  /\ Len(removeToast(M, id).timers) <= MaxTimers
  /\ SetM(removeToast(M, id))
  /\ event' = Ev("removeToast", id, id, id \in Range(toasts) /\ id \in removing)
  /\ UNCHANGED <<container, nextId, duration, closeBtn, onClick, onClickCalls, onCloseCalls, age>>

\* clear() called by the application
Clear ==
  /\ Len(clear(M).timers) <= MaxTimers
  /\ SetM(clear(M))
  /\ event' = Ev("clear", NoId, NoId, Range(toasts) \cap removing # {})
  /\ UNCHANGED <<container, nextId, duration, closeBtn, onClick, onClickCalls, onCloseCalls, age>>

\* the close handler letting the click bubble to the toast
stopPropagation_Missing == FALSE

\* closeBtn.onclick: e.stopPropagation(), line 205
stopPropagation == TRUE

\* a click on the close button: closeBtn.onclick, lines 204-207; the click goes
\* on to toast.onclick unless the handler stopped it
CloseClick(id) ==
  /\ id \in Range(children) /\ id \in closeBtn
  /\ Len(removeToast(M, id).timers) <= MaxTimers
  /\ SetM(removeToast(M, id))
  /\ onClickCalls' = IF ~stopPropagation /\ id \in onClick
                       THEN [onClickCalls EXCEPT ![id] = @ + 1]
                       ELSE onClickCalls
  /\ event' = Ev("closeClick", id, id, id \in Range(toasts) /\ id \in removing)
  /\ UNCHANGED <<container, nextId, duration, closeBtn, onClick, onCloseCalls, age>>

RECURSIVE SumCalls(_, _)
SumCalls(f, n) == IF n = 0 THEN 0 ELSE f[n] + SumCalls(f, n - 1)

\* a body click that also dismisses the toast
BodyClick_Dismiss(id) ==
  /\ id \in Range(children) /\ id \in onClick
  /\ SumCalls(onClickCalls, MaxIds) < MaxClicks
  /\ Len(removeToast(M, id).timers) <= MaxTimers
  /\ onClickCalls' = [onClickCalls EXCEPT ![id] = @ + 1]
  /\ SetM(removeToast(M, id))
  /\ event' = Ev("bodyClick", id, id, FALSE)
  /\ UNCHANGED <<container, nextId, duration, closeBtn, onClick, onCloseCalls, age>>

\* a handler that invokes options.onClick for the first click only
BodyClick_Once(id) ==
  /\ id \in Range(children) /\ id \in onClick
  /\ SumCalls(onClickCalls, MaxIds) < MaxClicks
  /\ onClickCalls' = [onClickCalls EXCEPT ![id] = IF @ = 0 THEN 1 ELSE @]
  /\ event' = Ev("bodyClick", id, id, onClickCalls[id] > 0)
  /\ UNCHANGED <<container, toasts, children, removing, timers, nextId, duration,
                 closeBtn, onClick, onCloseCalls, age>>

\* a click on the toast body: toast.onclick = options.onClick, lines 211-213
BodyClick(id) ==
  /\ id \in Range(children) /\ id \in onClick
  /\ SumCalls(onClickCalls, MaxIds) < MaxClicks
  /\ onClickCalls' = [onClickCalls EXCEPT ![id] = @ + 1]
  /\ event' = Ev("bodyClick", id, id, FALSE)
  /\ UNCHANGED <<container, toasts, children, removing, timers, nextId, duration,
                 closeBtn, onClick, onCloseCalls, age>>

\* a callback is due: the head of the queue has no time left to wait
Due == timers # <<>> /\ Head(timers).remaining = 0

\* the auto-dismiss callback of show runs: () => this.removeToast(id)
TimerDismiss ==
  /\ Due /\ Head(timers).kind = "dismiss"
  /\ LET id == Head(timers).id IN
       /\ SetM(removeToast([M EXCEPT !.timers = Tail(@)], id))
       /\ event' = [Ev("timerDismiss", id, id, id \in removing) EXCEPT !.elapsed = age[id]]
       /\ age' = [age EXCEPT ![id] = 0]
  /\ UNCHANGED <<container, nextId, duration, closeBtn, onClick, onClickCalls, onCloseCalls>>

\* the exit transition callback of removeToast runs
TimerExit ==
  /\ Due /\ Head(timers).kind = "exit"
  /\ LET id == Head(timers).id IN
       /\ SetM(exitCallback([M EXCEPT !.timers = Tail(@)], id))
       /\ event' = Ev("timerExit", id, id, id \notin Range(toasts))
       \* the detached element and its handlers are garbage
       /\ duration' = [duration EXCEPT ![id] = 0]
       /\ closeBtn' = closeBtn \ {id}
       /\ onClick' = onClick \ {id}
       /\ onClickCalls' = [onClickCalls EXCEPT ![id] = 0]
  /\ UNCHANGED <<container, nextId, onCloseCalls, age>>

\* TickMs elapse; a callback that is due runs before more time passes
Min(a, b) == IF a < b THEN a ELSE b
Max(a, b) == IF a > b THEN a ELSE b

Tick ==
  /\ ~Due
  /\ timers' = [i \in 1..Len(timers) |-> [timers[i] EXCEPT !.remaining = Max(0, @ - TickMs)]]
  /\ age' = [i \in Ids |-> IF \E k \in 1..Len(timers) : timers[k].kind = "dismiss" /\ timers[k].id = i
                             THEN Min(AgeCap, age[i] + TickMs) ELSE age[i]]
  /\ event' = Ev("tick", NoId, NoId, FALSE)
  /\ UNCHANGED <<container, toasts, children, removing, nextId, duration,
                 closeBtn, onClick, onClickCalls, onCloseCalls>>

Next ==
  \/ ShowNoContainer
  \/ \E o \in OptionChoices : Show(o)
  \/ \E method \in Methods, message \in ShorthandMessages, o \in OptionChoices :
       Shorthand(method, message, o)
  \/ \E id \in Ids : RemoveToast(id)
  \/ Clear
  \/ \E id \in Ids : CloseClick(id)
  \/ \E id \in Ids : BodyClick(id)
  \/ TimerDismiss
  \/ TimerExit
  \/ Tick

Spec == Init /\ [][Next]_vars

\* time passes and the event loop runs every callback that is due
LiveSpec == Spec /\ WF_vars(Tick) /\ WF_vars(TimerDismiss) /\ WF_vars(TimerExit)

TypeOK ==
  /\ container \in BOOLEAN
  /\ Range(toasts) \subseteq Ids
  /\ Range(children) \subseteq Ids
  /\ removing \subseteq Ids
  /\ nextId \in 1..(MaxIds + 1)
  /\ Len(timers) <= MaxTimers

\* ---- helpers of the properties ----
InRegistry(id) == id \in Range(toasts)
Attached(id) == id \in Range(children)
Live(id) == InRegistry(id) /\ id \notin removing
Shown(id) == id < nextId
Pending(tm, kind, id) == Cardinality({k \in 1..Len(tm) : tm[k].kind = kind /\ tm[k].id = id})
LiveSeq == SelectSeq(toasts, LAMBDA i : i \notin removing)
OldestLive == IF LiveSeq = <<>> THEN NoId ELSE Head(LiveSeq)
Requests == {"removeToast", "closeClick", "timerDismiss"}

\* C1: in every reachable state the registry holds at most maxToasts entries.
C1_RegistryBounded == Len(toasts) <= maxToasts

\* C2: every toast that was shown and has been removed from the registry had
\* its onClose callback invoked exactly once, and no toast has it invoked twice.
C2_OnCloseExactlyOnce ==
  \A id \in Ids :
    /\ onCloseCalls[id] <= 1
    /\ (Shown(id) /\ ~InRegistry(id)) => onCloseCalls[id] = 1

\* C3: a show called with the registry at capacity evicts the least recently
\* created toast that is still live (not yet in its exit transition).
C3_EvictsOldestLive ==
  [][(event'.op = "show" /\ event'.id # NoId /\ Len(toasts) >= maxToasts)
       => event'.target = OldestLive]_vars

\* C4: the auto-dismiss callback of a toast never runs once the removal of
\* that toast has been started by removeToast.
C4_TimerCancelled == event.op = "timerDismiss" => ~event.again

C6_AutoDismiss ==
  /\ [](event.op = "timerDismiss" =>
          /\ event.elapsed >= duration[event.id]
          /\ event.elapsed < duration[event.id] + TickMs \/ duration[event.id] = 0
          /\ InRegistry(event.id) => event.id \in removing)
  /\ \A id \in Ids : (InRegistry(id) /\ duration[id] > 0) ~> ~InRegistry(id)

\* the timer of a live toast ran after its duration and started the removal
C6_Witness ==
  /\ event.op = "timerDismiss" /\ ~event.again
  /\ InRegistry(event.id) /\ event.id \in removing
  /\ duration[event.id] > 0 /\ event.elapsed >= duration[event.id]

\* C7: a removeToast for an id that is already in its exit transition, or that
\* is not in the registry, changes neither the registry nor the surface nor the
\* pending callbacks.
C7_RemoveIdempotent ==
  [][(event'.op = "removeToast" /\ ~Live(event'.target))
       => UNCHANGED <<toasts, children, removing, timers>>]_vars

\* C8: removeToast on a present id leaves the record in the registry and on the
\* surface and schedules the exit callback ExitMs later; a record leaves the
\* registry or the surface only in a step of that callback.
C8_DeletedOnlyOnExit ==
  [][\A id \in Ids :
       /\ (event'.op \in Requests /\ event'.target = id /\ InRegistry(id)) =>
             /\ toasts' = toasts /\ children' = children
             /\ id \in removing'
             /\ \E k \in 1..Len(timers') :
                   timers'[k] = [kind |-> "exit", id |-> id, remaining |-> ExitMs]
       /\ ((InRegistry(id) /\ ~InRegistry(id)') \/ (Attached(id) /\ ~Attached(id)')) =>
             /\ event'.op = "timerExit" /\ event'.id = id
             /\ id \in removing
             /\ ~InRegistry(id)' /\ ~Attached(id)']_vars

\* removeToast has run for a present toast and the record still counts in the registry
C8_Witness ==
  /\ event.op = "removeToast" /\ ~event.again
  /\ InRegistry(event.target) /\ Attached(event.target) /\ event.target \in removing
  /\ Len(toasts) >= maxToasts

\* C9: clear starts the removal of exactly the ids in the registry when it is
\* called (one exit callback more for each of them, timer or not, and nothing
\* else changes), each of them is eventually deleted, and a toast shown later
\* starts live with no exit callback.
C9_ClearSnapshot ==
  /\ [][(event'.op = "clear" =>
            /\ toasts' = toasts /\ children' = children
            /\ removing' = removing \cup Range(toasts)
            /\ \A id \in Ids :
                  /\ Pending(timers', "dismiss", id) = Pending(timers, "dismiss", id)
                  /\ Pending(timers', "exit", id) =
                       Pending(timers, "exit", id) + (IF InRegistry(id) THEN 1 ELSE 0))
         /\ ((event'.op = "show" /\ event'.id = nextId) =>
            /\ nextId \in Range(toasts') /\ nextId \notin removing'
            /\ Pending(timers', "exit", nextId) = 0)]_vars
  /\ \A id \in Ids : (event.op = "clear" /\ InRegistry(id)) ~> ~InRegistry(id)

\* clear has run on a registry of two toasts, one of them with duration 0
C9_Witness ==
  /\ event.op = "clear" /\ ~event.again
  /\ Len(toasts) >= 2
  /\ Range(toasts) \subseteq removing
  /\ \E id \in Range(toasts) : duration[id] = 0 /\ Pending(timers, "exit", id) = 1

\* C10: with no container, show returns '' and changes neither the registry nor
\* the surface nor the pending callbacks, and creates no id.
C10_NoSurfaceNoOp ==
  [][(event'.op = "show" /\ ~container)
       => /\ event'.id = NoId /\ event'.target = NoId
          /\ UNCHANGED <<toasts, children, removing, timers, nextId>>]_vars

\* show has been called with no container
C10_Witness == ~container /\ event.op = "show" /\ event.id = NoId /\ toasts = <<>>

\* C11: a click on the close button of a toast starts removeToast for that
\* toast and invokes no onClick callback.
C11_CloseClickNoOnClick ==
  [][event'.op = "closeClick" =>
       /\ onClickCalls' = onClickCalls
       /\ event'.id \in closeBtn
       /\ InRegistry(event'.id) =>
             /\ event'.id \in removing'
             /\ Pending(timers', "exit", event'.id) = Pending(timers, "exit", event'.id) + 1]_vars

\* the close button of a live toast that has an onClick callback was clicked
C11_Witness ==
  /\ event.op = "closeClick" /\ ~event.again
  /\ event.id \in onClick /\ event.id \in removing
  /\ Pending(timers, "exit", event.id) = 1

\* C12: a click on the body of a toast that has an onClick callback invokes the
\* callback and changes neither the registry, nor the surface, nor the removing
\* state, nor the pending timers.
C12_BodyClickFrame ==
  [][event'.op = "bodyClick" =>
       /\ event'.id \in onClick
       /\ onClickCalls'[event'.id] = onClickCalls[event'.id] + 1
       /\ UNCHANGED <<toasts, children, removing, timers>>]_vars

\* the body of a live toast whose auto-dismiss timer is pending was clicked
C12_Witness ==
  /\ event.op = "bodyClick"
  /\ Live(event.id) /\ Pending(timers, "dismiss", event.id) = 1
  /\ onClickCalls[event.id] = 1

\* C13: the toasts attached to the container are in the order of the show calls
\* that created them (ids are handed out in call order): a show puts its toast
\* after all the others and no step reorders the toasts that stay.
C13_SurfaceInCallOrder ==
  \A i, j \in 1..Len(children) : i < j => children[i] < children[j]

\* a toast was shown after an earlier one had been detached between two others
C13_Witness == children = <<1, 3>> /\ event.op = "show"

\* C14: a record is in the registry if and only if its element is attached to
\* the container, each once.
C14_RegistryIffAttached ==
  /\ Range(toasts) = Range(children)
  /\ Len(toasts) = Len(children)
  /\ Cardinality(Range(toasts)) = Len(toasts)

\* an exit callback has detached one toast while another one is still in its
\* exit transition
C14_Witness ==
  /\ event.op = "timerExit" /\ ~event.again
  /\ ~InRegistry(event.id) /\ ~Attached(event.id)
  /\ \E id \in Range(toasts) : id \in removing /\ Attached(id)

\* C15: a shorthand called with a message and an options object does what show
\* does with that options object, its type set to the shorthand's own type and
\* its message to the given message, whatever type and message the options
\* carry, and it returns the id show returns ('' when there is no container).
C15_ShorthandIsShow ==
  [][event'.via \in Methods =>
       /\ event'.op = "show"
       /\ ~container => event'.id = NoId /\ UNCHANGED <<toasts, children, removing, timers, nextId>>
       /\ container =>
            /\ event'.id = nextId /\ nextId' = nextId + 1
            /\ event'.cls = event'.via
            /\ event'.text \in ShorthandMessages
            /\ \E arg \in OptionChoices :
                 LET o == [arg EXCEPT !.type = event'.via, !.message = event'.text] IN
                 /\ event'.opts = o
                 /\ M' = show(M, o, nextId)
                 /\ duration'[nextId] = resolveDuration(arg)
                 /\ (nextId \in closeBtn') = ~(arg.hasClosable /\ ~arg.closable)
                 /\ (nextId \in onClick') = arg.onClick]_vars

\* a shorthand was called with options that carry another type and message
C15_Witness ==
  /\ event.op = "show" /\ event.via = "success" /\ event.cls = "success"
  /\ event.id # NoId /\ InRegistry(event.id)
  /\ \E arg \in OptionChoices :
       /\ arg.type = "error"
       /\ event.opts = [arg EXCEPT !.type = "success", !.message = "m"]

\* C18: the duration show uses is options.duration when it is supplied, an
\* explicit 0 included, and config.defaultDuration otherwise; an auto-dismiss
\* timer is scheduled, with that delay, if and only if the value is positive.
C18_DurationResolved ==
  [][(event'.op = "show" /\ event'.id # NoId) =>
       LET o == event'.opts
           id == event'.id
           d == IF o.hasDuration THEN o.duration ELSE defaultDuration
       IN /\ duration'[id] = d
          /\ Pending(timers', "dismiss", id) = (IF d > 0 THEN 1 ELSE 0)
          /\ \A k \in 1..Len(timers') :
               (timers'[k].kind = "dismiss" /\ timers'[k].id = id) => timers'[k].remaining = d]_vars

\* show was called with an explicit duration 0 while the default is positive
C18_Witness ==
  /\ event.op = "show" /\ event.id # NoId
  /\ event.opts.hasDuration /\ event.opts.duration = 0 /\ defaultDuration > 0
  /\ duration[event.id] = 0 /\ Pending(timers, "dismiss", event.id) = 0

\* C16 as stated: no toast has its onClick callback invoked more than once.
C16_OnClickAtMostOnce == \A id \in Ids : onClickCalls[id] <= 1

\* C16 amended: every click on the body of a toast invokes its onClick callback
\* exactly once, so n clicks invoke it n times, and nothing else invokes it (the
\* count of a toast ends when its exit callback detaches it).
C16_OnClickOncePerClick ==
  [][/\ event'.op = "bodyClick" =>
          onClickCalls'[event'.id] = onClickCalls[event'.id] + 1
     /\ \A id \in Ids :
          onClickCalls'[id] # onClickCalls[id] =>
            \/ event'.op = "bodyClick" /\ event'.id = id
            \/ event'.op = "timerExit" /\ event'.id = id /\ onClickCalls'[id] = 0]_vars

\* the body of one toast was clicked twice
C16_Witness ==
  /\ event.op = "bodyClick"
  /\ onClickCalls[event.id] = 2 /\ Attached(event.id)

\* C17: at most one exit callback is pending for an id at any time, whatever mix
\* of timer, removeToast, eviction and clear requests hits it.
C17_OneRemovalInFlight == \A id \in Ids : Pending(timers, "exit", id) <= 1

C20_StaleTimerNoOp ==
  [][(event'.op = "timerDismiss" /\ ~InRegistry(event'.id)) =>
       /\ UNCHANGED <<toasts, children, removing>>
       /\ timers' = Tail(timers)]_vars

\* the auto-dismiss callback of a toast ran after the toast had been deleted
C20_Witness ==
  /\ event.op = "timerDismiss" /\ event.again
  /\ ~InRegistry(event.id) /\ ~Attached(event.id)
  /\ Shown(event.id)

\* C21: a toast that has been marked removing stays marked, whatever show,
\* removeToast or clear calls follow, and when due callbacks keep running it is
\* eventually deleted from the registry and detached from the surface.
C21_RemovingIsFinal ==
  /\ [][\A id \in Ids : id \in removing => id \in removing']_vars
  /\ \A id \in Ids :
       (InRegistry(id) /\ id \in removing) ~> (~InRegistry(id) /\ ~Attached(id))

\* the exit callback deleted a toast for which a second removal request had
\* come in during its exit transition
C21_Witness ==
  /\ event.op = "timerExit" /\ ~event.again
  /\ event.id \in removing /\ ~InRegistry(event.id) /\ ~Attached(event.id)
  /\ Pending(timers, "exit", event.id) = 1

====
